---- MODULE Spec2Model ----
(***************************************************************************)
(* A model of YipBox (src/YipBox.h): typed signals (emitters) holding an   *)
(* ordered list of connections to receivers (HasSlots), receivers holding  *)
(* the set of emitters connected to them, and the mutual notification      *)
(* protocol that keeps both sides consistent.                              *)
(*                                                                         *)
(* Spec   : the public operations executed one at a time.                  *)
(* SpecMT : the same operations executed by concurrent threads under the   *)
(*          POSIX lock policies (MultiThreadedLocal, one mutex per object, *)
(*          and MultiThreadedGlobal, one mutex for all), one step per      *)
(*          lock acquisition.                                              *)
(* SpecRE : one thread whose slots call back into the library from inside  *)
(*          a shoot.                                                       *)
(***************************************************************************)
EXTENDS Integers, Sequences, FiniteSets, TLC

\* ------------------------------------------------------------ bounds ----
\* Number of Connection objects allocated at a time, and of connect calls
\* the main thread makes before the threads start.
MaxConnections == 3
MaxSetup == 2

\* Addresses of emitter objects, in the order std::set compares them.
Emitters == {1, 2}
NumEmitters == Cardinality(Emitters)

\* Addresses of receiver objects.
Receivers == {1, 2}

\* Member functions of the receivers' class.
Slots == {1, 2}

\* Threads of the caller, the emitters the threaded program constructs, and
\* the member functions its main thread connects before the threads start.
Threads == {1, 2}
MTEmitters == {1, 2}
SetupSlots == {1}

VARIABLES
    eLive,           \* emitters constructed and not yet destroyed
    rLive,           \* receivers constructed and not yet destroyed
    connectedSlots,  \* SignalBaseTyped::connectedSlots, per emitter
    senders,         \* HasSlots::senders, per receiver (std::set, in key order)
    active,          \* HasSlots::active, per receiver
    calls,           \* slot invocations made by the last shoot()
    lastOp,          \* the operation that completed last
    pc,              \* per thread: the operation in progress and its position
    emitterLock,     \* per emitter: the thread holding its mutex, 0 when free
    receiverLock,    \* per receiver: the thread holding its mutex, 0 when free
    ub,              \* a destroyed object has been accessed
    policy,          \* the MTPolicy class the library is instantiated with
    frame            \* per thread: the shoot whose slot made the current call

vars == <<eLive, rLive, connectedSlots, senders, active, calls, lastOp,
          pc, emitterLock, receiverLock, ub, policy, frame>>

\* The state of the threads and of the mutexes.
mtvars == <<pc, emitterLock, receiverLock, ub, policy, frame>>

\* ------------------------------------------------- Connection objects ----
\* Connection(newObject, newFunction)
Connection(object, function) == [object |-> object, function |-> function]

\* Connection::getDestination
getDestination(c) == c.object

\* Connection::clone: a copy with the same object and function
clone(c) == Connection(c.object, c.function)

\* Connection::duplicate: same function, new destination
duplicate(c, newDestination) == Connection(newDestination, c.function)

\* Variants of push_back: insertion at the front, and insertion that skips a
\* connection already in the list.
push_front(list, c) == <<c>> \o list

push_back_unique(list, c) ==
    IF \E i \in 1..Len(list) : list[i] = c THEN list ELSE Append(list, c)

\* std::list::push_back on a ConnectionList
push_back(list, c) == Append(list, c)

\* ------------------------------------------------ std::set<SignalBase*> --
\* std::set keeps unique keys in increasing order.
RECURSIVE SetInsert(_, _)
SetInsert(s, x) ==
    IF s = <<>> THEN <<x>>
    ELSE IF Head(s) = x THEN s
    ELSE IF Head(s) > x THEN <<x>> \o s
    ELSE <<Head(s)>> \o SetInsert(Tail(s), x)

RECURSIVE SetErase(_, _)
SetErase(s, x) ==
    IF s = <<>> THEN <<>>
    ELSE IF Head(s) = x THEN Tail(s)
    ELSE <<Head(s)>> \o SetErase(Tail(s), x)

\* Variants of the erase loop: one that stops at the first match, and one
\* with the comparison inverted.
RECURSIVE EraseFirstDestination(_, _)
EraseFirstDestination(list, item) ==
    IF list = <<>> THEN <<>>
    ELSE IF Head(list).object = item
         THEN Tail(list)
         ELSE <<Head(list)>> \o EraseFirstDestination(Tail(list), item)

EraseOtherDestinations(list, item) ==
    SelectSeq(list, LAMBDA c : c.object = item)

\* ------------------------------------------------------- list walks ----
\* The erase loop of SignalBaseTyped::disconnect / disconnectSlot: every
\* connection whose destination is item is deleted, the others keep their
\* places.
RECURSIVE EraseDestination(_, _)
EraseDestination(list, item) ==
    IF list = <<>> THEN <<>>
    ELSE IF getDestination(Head(list)) = item
         THEN EraseDestination(Tail(list), item)
         ELSE <<Head(list)>> \o EraseDestination(Tail(list), item)

\* Variant of the duplicateSlot loop that stops after the first match.
RECURSIVE DuplicateFirstFrom(_, _, _, _)
DuplicateFirstFrom(list, i, oldTarget, newTarget) ==
    IF i > Len(list) THEN list
    ELSE IF list[i].object = oldTarget
         THEN Append(list, [object |-> newTarget, function |-> list[i].function])
         ELSE DuplicateFirstFrom(list, i + 1, oldTarget, newTarget)

\* The loop of SignalBaseTyped::duplicateSlot from position i: the list grows
\* at the back while it is traversed, and end() is re-read at every step.
RECURSIVE DuplicateFrom(_, _, _, _)
DuplicateFrom(list, i, oldTarget, newTarget) ==
    IF i > Len(list) THEN list
    ELSE IF getDestination(list[i]) = oldTarget
         THEN DuplicateFrom(push_back(list, duplicate(list[i], newTarget)),
                            i + 1, oldTarget, newTarget)
         ELSE DuplicateFrom(list, i + 1, oldTarget, newTarget)

\* Variant of the shoot loop without the isActive test.
ShootEvery(list, act) == list

\* The loop of SignalSpecific::shoot: the connections to active receivers are
\* invoked in list order.
RECURSIVE ShootList(_, _)
ShootList(list, act) ==
    IF list = <<>> THEN <<>>
    ELSE IF act[getDestination(Head(list))]
         THEN <<Head(list)>> \o ShootList(Tail(list), act)
         ELSE ShootList(Tail(list), act)

\* Variant of the shoot loop that swallows a slot's exception and goes on
\* with the remaining connections.
RECURSIVE ShootSwallowing(_, _, _, _)
ShootSwallowing(list, act, i, throwsAt) ==
    IF i > Len(list) THEN [calls |-> <<>>, thrown |-> FALSE]
    ELSE LET rest == ShootSwallowing(list, act, i + 1, throwsAt)
         IN  IF act[getDestination(list[i])]
             THEN [calls |-> <<list[i]>> \o rest.calls,
                   thrown |-> (i = throwsAt) \/ rest.thrown]
             ELSE rest

\* The loop of SignalSpecific::shoot from iterator position i when the slot
\* of the connection at position throwsAt throws: the exception leaves the
\* loop (there is no try block), so the invocations stop there.
RECURSIVE ShootThrowing(_, _, _, _)
ShootThrowing(list, act, i, throwsAt) ==
    IF i > Len(list) THEN [calls |-> <<>>, thrown |-> FALSE]
    ELSE IF act[getDestination(list[i])]
         THEN IF i = throwsAt
              THEN [calls |-> <<list[i]>>, thrown |-> TRUE]
              ELSE LET rest == ShootThrowing(list, act, i + 1, throwsAt)
                   IN  [calls |-> <<list[i]>> \o rest.calls,
                        thrown |-> rest.thrown]
         ELSE ShootThrowing(list, act, i + 1, throwsAt)

\* Number of connections of a list whose destination is r.
CountTo(list, r) ==
    Cardinality({i \in 1..Len(list) : getDestination(list[i]) = r})

RECURSIVE SumLen(_, _)
SumLen(cs, n) == IF n = 0 THEN 0 ELSE Len(cs[n]) + SumLen(cs, n - 1)

\* Connection objects currently allocated.
TotalConnections(cs) == SumLen(cs, NumEmitters)

Op(op, e, r, x, n) == [op |-> op, e |-> e, r |-> r, x |-> x, n |-> n]

\* A thread's position: the operation, the place in it, its emitter, receiver
\* and function arguments, and the loop iterator.
At(op, at, e, r, f, i) == [op |-> op, at |-> at, e |-> e, r |-> r, f |-> f, i |-> i]

Idle == At("idle", "", 0, 0, 0, 0)

\* The thread's operation has returned.
Done == At("done", "", 0, 0, 0, 0)

\* ------------------------------------------------------------- Init ----
Init ==
    /\ eLive = {}
    /\ rLive = {}
    /\ connectedSlots = [e \in Emitters |-> <<>>]
    /\ senders = [r \in Receivers |-> <<>>]
    /\ active = [r \in Receivers |-> TRUE]
    /\ calls = <<>>
    /\ lastOp = Op("init", 0, 0, 0, 0)
    /\ pc = [t \in Threads |-> Idle]
    /\ emitterLock = [e \in Emitters |-> 0]
    /\ receiverLock = [r \in Receivers |-> 0]
    /\ ub = FALSE
    /\ policy = "SingleThreaded"
    /\ frame = [t \in Threads |-> Idle]

\* Variant of signalConnect that records nothing.
signalConnectDropped(snd, r, sender) == snd

\* ------------------------------------------- receiver notifications ----
\* HasSlots::signalConnect
signalConnect(snd, r, sender) == [snd EXCEPT ![r] = SetInsert(@, sender)]

\* Variant of signalDisconnect that forgets every sender of the receiver.
signalDisconnectClears(snd, r, sender) == [snd EXCEPT ![r] = <<>>]

\* Variant of signalDisconnect that keeps the sender.
signalDisconnectKept(snd, r, sender) == snd

\* HasSlots::signalDisconnect
signalDisconnect(snd, r, sender) == [snd EXCEPT ![r] = SetErase(@, sender)]

\* Variant of the notification loop that tells only the first connection's
\* destination.
NotifyDisconnectFirst(snd, list, e) ==
    IF list = <<>> THEN snd
    ELSE [snd EXCEPT ![Head(list).object] = SelectSeq(@, LAMBDA x : x # e)]

\* The loop of SignalBaseTyped::disconnectAll and of ~SignalBaseTyped: every
\* connection's destination is told to forget the emitter.
RECURSIVE NotifyDisconnectAll(_, _, _)
NotifyDisconnectAll(snd, list, e) ==
    IF list = <<>> THEN snd
    ELSE NotifyDisconnectAll(signalDisconnect(snd, getDestination(Head(list)), e),
                             Tail(list), e)

\* The loop of the SignalBaseTyped copy constructor over src.connectedSlots:
\* the receivers record the new emitter.
RECURSIVE NotifyConnectAll(_, _, _)
NotifyConnectAll(snd, list, e) ==
    IF list = <<>> THEN snd
    ELSE NotifyConnectAll(signalConnect(snd, getDestination(Head(list)), e),
                          Tail(list), e)

\* Variant of the cloning loop that leaves out the last connection.
CloneAllButLast(mine, list) ==
    mine \o SubSeq(list, 1, Len(list) - 1)

\* The clones pushed by the SignalBaseTyped copy constructor.
RECURSIVE CloneAll(_, _)
CloneAll(mine, list) ==
    IF list = <<>> THEN mine
    ELSE CloneAll(push_back(mine, clone(Head(list))), Tail(list))

\* Variant of disconnectSlot that erases nothing.
disconnectSlotKept(cs, e, slot) == cs

\* SignalBaseTyped::disconnectSlot on emitter e
disconnectSlot(cs, e, slot) == [cs EXCEPT ![e] = EraseDestination(@, slot)]

\* SignalBaseTyped::duplicateSlot on emitter e
duplicateSlot(cs, e, oldTarget, newTarget) ==
    [cs EXCEPT ![e] = DuplicateFrom(@, 1, oldTarget, newTarget)]

\* The loop of HasSlots::disconnectAll over the senders set.
RECURSIVE DisconnectSlots(_, _, _)
DisconnectSlots(cs, snd, r) ==
    IF snd = <<>> THEN cs
    ELSE DisconnectSlots(disconnectSlot(cs, Head(snd), r), Tail(snd), r)

\* The loop of the HasSlots copy constructor over src.senders.
RECURSIVE DuplicateSlots(_, _, _, _)
DuplicateSlots(cs, snd, src, dst) ==
    IF snd = <<>> THEN cs
    ELSE DuplicateSlots(duplicateSlot(cs, Head(snd), src, dst), Tail(snd), src, dst)

\* senders of the HasSlots copy constructor: each sender of src is inserted.
RECURSIVE InsertAll(_, _)
InsertAll(s, snd) ==
    IF snd = <<>> THEN s ELSE InsertAll(SetInsert(s, Head(snd)), Tail(snd))

\* --------------------------------------------- operations, one at a time
\* SignalSpecific()
NewEmitter(e) ==
    /\ e \notin eLive
    /\ eLive' = eLive \cup {e}
    /\ connectedSlots' = [connectedSlots EXCEPT ![e] = <<>>]
    /\ calls' = <<>>
    /\ lastOp' = Op("newEmitter", e, 0, 0, 0)
    /\ UNCHANGED <<rLive, senders, active>>
    /\ UNCHANGED mtvars

\* HasSlots()
NewReceiver(r) ==
    /\ r \notin rLive
    /\ rLive' = rLive \cup {r}
    /\ senders' = [senders EXCEPT ![r] = <<>>]
    /\ active' = [active EXCEPT ![r] = TRUE]
    /\ calls' = <<>>
    /\ lastOp' = Op("newReceiver", 0, r, 0, 0)
    /\ UNCHANGED <<eLive, connectedSlots>>
    /\ UNCHANGED mtvars

\* SignalSpecific::connect
Connect(e, r, f) ==
    /\ e \in eLive
    /\ r \in rLive
    /\ TotalConnections(connectedSlots) < MaxConnections
    /\ connectedSlots' = [connectedSlots EXCEPT ![e] = push_back(@, Connection(r, f))]
    /\ senders' = signalConnect(senders, r, e)
    /\ calls' = <<>>
    /\ lastOp' = Op("connect", e, r, f, 1)
    /\ UNCHANGED <<eLive, rLive, active>>
    /\ UNCHANGED mtvars

\* SignalBaseTyped::disconnect
Disconnect(e, r) ==
    /\ e \in eLive
    /\ r \in rLive
    /\ connectedSlots' = [connectedSlots EXCEPT ![e] = EraseDestination(@, r)]
    /\ senders' = IF CountTo(connectedSlots[e], r) > 0
                  THEN signalDisconnect(senders, r, e)
                  ELSE senders
    /\ calls' = <<>>
    /\ lastOp' = Op("disconnect", e, r, 0, CountTo(connectedSlots[e], r))
    /\ UNCHANGED <<eLive, rLive, active>>
    /\ UNCHANGED mtvars

\* SignalBaseTyped::disconnectAll
EmitterDisconnectAll(e) ==
    /\ e \in eLive
    /\ senders' = NotifyDisconnectAll(senders, connectedSlots[e], e)
    /\ connectedSlots' = [connectedSlots EXCEPT ![e] = <<>>]
    /\ calls' = <<>>
    /\ lastOp' = Op("emitterDisconnectAll", e, 0, 0, Len(connectedSlots[e]))
    /\ UNCHANGED <<eLive, rLive, active>>
    /\ UNCHANGED mtvars

\* SignalBaseTyped::~SignalBaseTyped
DestroyEmitter(e) ==
    /\ e \in eLive
    /\ senders' = NotifyDisconnectAll(senders, connectedSlots[e], e)
    /\ connectedSlots' = [connectedSlots EXCEPT ![e] = <<>>]
    /\ eLive' = eLive \ {e}
    /\ calls' = <<>>
    /\ lastOp' = Op("destroyEmitter", e, 0, 0, Len(connectedSlots[e]))
    /\ UNCHANGED <<rLive, active>>
    /\ UNCHANGED mtvars

\* HasSlots::disconnectAll
ReceiverDisconnectAll(r) ==
    /\ r \in rLive
    /\ connectedSlots' = DisconnectSlots(connectedSlots, senders[r], r)
    /\ senders' = [senders EXCEPT ![r] = <<>>]
    /\ calls' = <<>>
    /\ lastOp' = Op("receiverDisconnectAll", 0, r, 0,
                    TotalConnections(connectedSlots) - TotalConnections(connectedSlots'))
    /\ UNCHANGED <<eLive, rLive, active>>
    /\ UNCHANGED mtvars

\* HasSlots::~HasSlots
DestroyReceiver(r) ==
    /\ r \in rLive
    /\ connectedSlots' = DisconnectSlots(connectedSlots, senders[r], r)
    /\ senders' = [senders EXCEPT ![r] = <<>>]
    /\ active' = [active EXCEPT ![r] = TRUE]
    /\ rLive' = rLive \ {r}
    /\ calls' = <<>>
    /\ lastOp' = Op("destroyReceiver", 0, r, 0,
                    TotalConnections(connectedSlots) - TotalConnections(connectedSlots'))
    /\ UNCHANGED <<eLive>>
    /\ UNCHANGED mtvars

\* HasSlots(const HasSlots &src), constructing dst
CopyReceiver(src, dst) ==
    /\ src \in rLive
    /\ dst \notin rLive
    /\ TotalConnections(DuplicateSlots(connectedSlots, senders[src], src, dst))
          <= MaxConnections
    /\ rLive' = rLive \cup {dst}
    /\ connectedSlots' = DuplicateSlots(connectedSlots, senders[src], src, dst)
    /\ senders' = [senders EXCEPT ![dst] = InsertAll(<<>>, senders[src])]
    /\ active' = [active EXCEPT ![dst] = active[src]]
    /\ calls' = <<>>
    /\ lastOp' = Op("copyReceiver", 0, dst, src,
                    TotalConnections(connectedSlots') - TotalConnections(connectedSlots))
    /\ UNCHANGED <<eLive>>
    /\ UNCHANGED mtvars

\* SignalSpecific(const SignalSpecific &src), constructing dst
CopyEmitter(src, dst) ==
    /\ src \in eLive
    /\ dst \notin eLive
    /\ TotalConnections(connectedSlots) + Len(connectedSlots[src]) <= MaxConnections
    /\ eLive' = eLive \cup {dst}
    /\ senders' = NotifyConnectAll(senders, connectedSlots[src], dst)
    /\ connectedSlots' = [connectedSlots EXCEPT ![dst] = CloneAll(<<>>, connectedSlots[src])]
    /\ calls' = <<>>
    /\ lastOp' = Op("copyEmitter", dst, 0, src, Len(connectedSlots[src]))
    /\ UNCHANGED <<rLive, active>>
    /\ UNCHANGED mtvars

\* HasSlots::setActive
SetActive(r, newActive) ==
    /\ r \in rLive
    /\ active' = [active EXCEPT ![r] = newActive]
    /\ calls' = <<>>
    /\ lastOp' = Op("setActive", 0, r, IF newActive THEN 1 ELSE 0, 0)
    /\ UNCHANGED <<eLive, rLive, connectedSlots, senders>>
    /\ UNCHANGED mtvars

\* SignalSpecific::shoot / operator()
Shoot(e) ==
    /\ e \in eLive
    /\ calls' = ShootList(connectedSlots[e], active)
    /\ lastOp' = Op("shoot", e, 0, 0, Len(connectedSlots[e]))
    /\ UNCHANGED <<eLive, rLive, connectedSlots, senders, active>>
    /\ UNCHANGED mtvars

\* SignalSpecific::shoot when the slot of the connection at position throwsAt
\* throws: the exception propagates out of shoot to the caller (lastOp
\* records it), and the registry is not touched.
ShootThrows(e, throwsAt) ==
    /\ e \in eLive
    /\ LET res == ShootThrowing(connectedSlots[e], active, 1, throwsAt)
       IN  /\ res.thrown
           /\ calls' = res.calls
           /\ lastOp' = Op("shootThrows", e, 0, throwsAt, Len(connectedSlots[e]))
    /\ UNCHANGED <<eLive, rLive, connectedSlots, senders, active>>
    /\ UNCHANGED mtvars

Next ==
    \/ \E e \in Emitters : NewEmitter(e)
    \/ \E r \in Receivers : NewReceiver(r)
    \/ \E e \in Emitters, r \in Receivers, f \in Slots : Connect(e, r, f)
    \/ \E e \in Emitters, r \in Receivers : Disconnect(e, r)
    \/ \E e \in Emitters : EmitterDisconnectAll(e)
    \/ \E e \in Emitters : DestroyEmitter(e)
    \/ \E r \in Receivers : ReceiverDisconnectAll(r)
    \/ \E r \in Receivers : DestroyReceiver(r)
    \/ \E src \in Receivers, dst \in Receivers : CopyReceiver(src, dst)
    \/ \E src \in Emitters, dst \in Emitters : CopyEmitter(src, dst)
    \/ \E r \in Receivers, b \in BOOLEAN : SetActive(r, b)
    \/ \E e \in Emitters : Shoot(e)
    \/ \E e \in Emitters, i \in 1..MaxConnections : ShootThrows(e, i)

Spec == Init /\ [][Next]_vars

\* ------------------------------------------------------------------------
\* The same operations run by concurrent threads under the POSIX lock
\* policies: every object is its own pthread mutex (MultiThreadedLocal) or
\* all objects share one (MultiThreadedGlobal), taken by LockBlock's
\* constructor and released by its destructor. The main thread connects,
\* then every thread runs one operation. A thread takes one step per mutex
\* acquisition and runs to the next acquisition; a step that must acquire a
\* held mutex is not enabled. An access to an object whose destructor has
\* completed is undefined behaviour: either ub is raised and nothing is said
\* about what follows, or the call runs on the freed object as on a live one.
\* A read of a container that another thread has written without a common
\* mutex is a data race: ub is raised.
\* ------------------------------------------------------------------------

\* One pass of the while loop of SignalBaseTyped::disconnect up to its call
\* of item->signalDisconnect: the first connection to item is erased.
RECURSIVE EraseNext(_, _)
EraseNext(list, item) ==
    IF list = <<>> THEN <<>>
    ELSE IF getDestination(Head(list)) = item
         THEN Tail(list)
         ELSE <<Head(list)>> \o EraseNext(Tail(list), item)

\* Variant of the mutex that excludes nobody.
CanLockAlways(t, mutex, x) == TRUE

\* Variant of the mutex that its owner may lock again.
CanLockRecursive(t, mutex, x) ==
    IF policy = "MultiThreadedGlobal"
    THEN /\ \A e \in Emitters : emitterLock[e] \in {0, t}
         /\ \A r \in Receivers : receiverLock[r] \in {0, t}
    ELSE mutex[x] \in {0, t}

\* MTPolicy::lock returns: pthread_mutex_lock on a default (non-recursive)
\* mutex returns only when no thread holds it, the caller included.
\* MultiThreadedLocal locks the mutex of the object x, MultiThreadedGlobal
\* the one static mutex whatever the object; emitterLock and receiverLock
\* then record through which object's LockBlock it is held.
CanLock(t, mutex, x) ==
    IF policy = "MultiThreadedGlobal"
    THEN /\ \A e \in Emitters : emitterLock[e] = 0
         /\ \A r \in Receivers : receiverLock[r] = 0
    ELSE mutex[x] = 0

\* Variant of the LockBlock destructor that leaves the mutex locked.
unlockSkipped(mutex, x) == mutex

\* LockBlock::~LockBlock: MTPolicy::unlock on the mutex taken through x, on
\* return as on stack unwinding.
unlock(mutex, x) == [mutex EXCEPT ![x] = 0]

\* Objects whose constructor has returned, the only ones a caller can name.
IsEmitter(e) ==
    e \in eLive /\ \A u \in Threads : ~(pc[u].op = "copyEmitter" /\ pc[u].e = e)

IsReceiver(r) ==
    r \in rLive /\ \A u \in Threads : ~(pc[u].op = "copyReceiver" /\ pc[u].r = r)

\* A call of an operation, at its first statement.
Call(op, e, r, f) == At(op, "enter", e, r, f, 0)

\* Thread t executes the first statement of the call: it is a thread of the
\* caller that has not run its operation yet, or a slot has made this call.
Entering(t, call) ==
    /\ ~ub
    /\ pc[t] = Idle \/ pc[t] = call

\* The calls a slot can make from inside a shoot.
SlotCalls ==
    {Call("connect", e, r, f) : e \in MTEmitters, r \in Receivers, f \in Slots}
       \cup {Call("disconnect", e, r, 0) : e \in MTEmitters, r \in Receivers}
       \cup {Call(op, e, 0, 0) : op \in {"shoot", "emitterDisconnectAll", "destroyEmitter"},
                                 e \in MTEmitters}
       \cup {Call(op, 0, r, 0) : op \in {"receiverDisconnectAll", "destroyReceiver"},
                                 r \in Receivers}
       \cup {Call("copyReceiver", 0, dst, src) : dst \in Receivers, src \in Receivers}
       \cup {Call("copyEmitter", dst, 0, src) : dst \in MTEmitters, src \in MTEmitters}

\* The registry the threads start from: the main thread's connect calls,
\* made before any thread has started. Under MultiThreadedGlobal no connect
\* call returns (MTConnectNotify), so the registry stays empty.
MTSetup(e, r, f) ==
    /\ \A t \in Threads : pc[t] = Idle /\ frame[t] = Idle
    /\ policy = "MultiThreadedLocal"
    /\ TotalConnections(connectedSlots) < MaxSetup
    /\ Connect(e, r, f)

\* SignalSpecific::connect, lines 410-412: the emitter is locked and the
\* connection pushed.
MTConnectLock(t, e, r, f) ==
    /\ Entering(t, Call("connect", e, r, f))
    /\ IsEmitter(e)
    /\ IsReceiver(r)
    /\ TotalConnections(connectedSlots) < MaxConnections
    /\ CanLock(t, emitterLock, e)
    /\ emitterLock' = [emitterLock EXCEPT ![e] = t]
    /\ connectedSlots' = [connectedSlots EXCEPT ![e] = push_back(@, Connection(r, f))]
    /\ pc' = [pc EXCEPT ![t] = At("connect", "signalConnect", e, r, f, 0)]
    /\ UNCHANGED <<eLive, rLive, senders, active, calls, lastOp, receiverLock, ub,
                   policy, frame>>

\* SignalSpecific::connect, lines 413-414: object->signalConnect(this) locks
\* the receiver, and both locks are released. On a receiver destroyed in the
\* meantime the call is undefined: it faults, or it runs on the freed object.
MTConnectNotify(t) ==
    /\ ~ub
    /\ pc[t].op = "connect" /\ pc[t].at = "signalConnect"
    /\ \/ /\ pc[t].r \notin rLive
          /\ ub' = TRUE
          /\ UNCHANGED <<senders, emitterLock, pc, lastOp>>
       \/ /\ CanLock(t, receiverLock, pc[t].r)
          /\ senders' = signalConnect(senders, pc[t].r, pc[t].e)
          /\ emitterLock' = unlock(emitterLock, pc[t].e)
          /\ pc' = [pc EXCEPT ![t] = Done]
          /\ lastOp' = Op("connect", pc[t].e, pc[t].r, pc[t].f, 1)
          /\ UNCHANGED ub
    /\ UNCHANGED <<eLive, rLive, connectedSlots, active, calls, receiverLock,
                   policy, frame>>

\* SignalBaseTyped::disconnect, lines 313-319: the emitter is locked and the
\* list scanned up to the first connection to item, which is erased; without
\* one the function returns.
MTDisconnectLock(t, e, r) ==
    /\ Entering(t, Call("disconnect", e, r, 0))
    /\ IsEmitter(e)
    /\ IsReceiver(r)
    /\ CanLock(t, emitterLock, e)
    /\ IF CountTo(connectedSlots[e], r) = 0
       THEN /\ lastOp' = Op("disconnect", e, r, 0, 0)
            /\ pc' = [pc EXCEPT ![t] = Done]
            /\ UNCHANGED <<connectedSlots, emitterLock>>
       ELSE /\ connectedSlots' = [connectedSlots EXCEPT ![e] = EraseNext(@, r)]
            /\ emitterLock' = [emitterLock EXCEPT ![e] = t]
            /\ pc' = [pc EXCEPT ![t] = At("disconnect", "signalDisconnect", e, r, 0, 0)]
            /\ UNCHANGED lastOp
    /\ UNCHANGED <<eLive, rLive, senders, active, calls, receiverLock, ub,
                   policy, frame>>

\* SignalBaseTyped::disconnect, lines 320-326: item->signalDisconnect(this)
\* locks the receiver; the scan goes on to the next connection to item, or
\* to the end of the list, where the emitter is unlocked.
MTDisconnectNotify(t) ==
    /\ ~ub
    /\ pc[t].op = "disconnect" /\ pc[t].at = "signalDisconnect"
    /\ \/ /\ pc[t].r \notin rLive
          /\ ub' = TRUE
          /\ UNCHANGED <<senders, connectedSlots, emitterLock, pc, lastOp>>
       \/ /\ CanLock(t, receiverLock, pc[t].r)
          /\ senders' = signalDisconnect(senders, pc[t].r, pc[t].e)
          /\ IF CountTo(connectedSlots[pc[t].e], pc[t].r) = 0
             THEN /\ emitterLock' = unlock(emitterLock, pc[t].e)
                  /\ pc' = [pc EXCEPT ![t] = Done]
                  /\ lastOp' = Op("disconnect", pc[t].e, pc[t].r, 0, 1)
                  /\ UNCHANGED connectedSlots
             ELSE /\ connectedSlots' =
                        [connectedSlots EXCEPT ![pc[t].e] = EraseNext(@, pc[t].r)]
                  /\ UNCHANGED <<emitterLock, pc, lastOp>>
          /\ UNCHANGED ub
    /\ UNCHANGED <<eLive, rLive, active, calls, receiverLock, policy, frame>>

\* SignalSpecific::shoot, lines 417-419: the emitter is locked and the
\* iterator set to begin().
MTShootLock(t, e) ==
    /\ Entering(t, Call("shoot", e, 0, 0))
    /\ IsEmitter(e)
    /\ CanLock(t, emitterLock, e)
    /\ emitterLock' = [emitterLock EXCEPT ![e] = t]
    /\ pc' = [pc EXCEPT ![t] = At("shoot", "loop", e, 0, 0, 1)]
    /\ calls' = IF frame[t] = Idle THEN <<>> ELSE calls
    /\ UNCHANGED <<eLive, rLive, connectedSlots, senders, active, lastOp,
                   receiverLock, ub, policy, frame>>

\* SignalSpecific::shoot, lines 420-425: one connection is visited and, when
\* its destination is active, invoked, and the slot returns; at end() the
\* emitter is unlocked. On a destination destroyed in the meantime isActive
\* and the slot are undefined: they fault, or they run on the freed object.
MTShootStep(t) ==
    /\ ~ub
    /\ pc[t].op = "shoot" /\ pc[t].at = "loop"
    /\ IF pc[t].i > Len(connectedSlots[pc[t].e])
       THEN /\ emitterLock' = unlock(emitterLock, pc[t].e)
            /\ pc' = [pc EXCEPT ![t] = Done]
            /\ lastOp' = Op("shoot", pc[t].e, 0, pc[t].f, Len(connectedSlots[pc[t].e]))
            /\ UNCHANGED <<calls, ub>>
       ELSE \/ /\ getDestination(connectedSlots[pc[t].e][pc[t].i]) \notin rLive
               /\ ub' = TRUE
               /\ UNCHANGED <<calls, emitterLock, pc, lastOp>>
            \/ /\ calls' = IF active[getDestination(connectedSlots[pc[t].e][pc[t].i])]
                           THEN Append(calls, connectedSlots[pc[t].e][pc[t].i])
                           ELSE calls
               /\ pc' = [pc EXCEPT ![t].i = @ + 1]
               /\ UNCHANGED <<emitterLock, lastOp, ub>>
    /\ UNCHANGED <<eLive, rLive, connectedSlots, senders, active, receiverLock,
                   policy, frame>>

\* SignalSpecific::shoot, lines 421-423, when the invoked slot throws: the
\* exception leaves shoot, whose LockBlock is destroyed on the way out.
MTShootThrows(t) ==
    /\ ~ub
    /\ pc[t].op = "shoot" /\ pc[t].at = "loop"
    /\ frame[t] = Idle
    /\ pc[t].i <= Len(connectedSlots[pc[t].e])
    /\ getDestination(connectedSlots[pc[t].e][pc[t].i]) \in rLive
    /\ active[getDestination(connectedSlots[pc[t].e][pc[t].i])]
    /\ calls' = Append(calls, connectedSlots[pc[t].e][pc[t].i])
    /\ emitterLock' = unlock(emitterLock, pc[t].e)
    /\ pc' = [pc EXCEPT ![t] = Done]
    /\ lastOp' = Op("shootThrows", pc[t].e, 0, pc[t].i, Len(connectedSlots[pc[t].e]))
    /\ UNCHANGED <<eLive, rLive, connectedSlots, senders, active, receiverLock,
                   ub, policy, frame>>

\* SignalSpecific::shoot, lines 421-423, when the invoked slot calls an
\* operation of the library: shoot is suspended inside Connection::shoot with
\* the emitter still locked, and the thread is at the first statement of the
\* call. One slot of a shoot does so, and not a slot of a nested shoot.
MTSlotCalls(t, call) ==
    /\ ~ub
    /\ pc[t].op = "shoot" /\ pc[t].at = "loop"
    /\ frame[t] = Idle
    /\ pc[t].f = 0
    /\ pc[t].i <= Len(connectedSlots[pc[t].e])
    /\ getDestination(connectedSlots[pc[t].e][pc[t].i]) \in rLive
    /\ active[getDestination(connectedSlots[pc[t].e][pc[t].i])]
    /\ call \in SlotCalls
    /\ call.e # 0 => IsEmitter(call.e)
    /\ call.r # 0 => IsReceiver(call.r)
    /\ calls' = Append(calls, connectedSlots[pc[t].e][pc[t].i])
    /\ frame' = [frame EXCEPT ![t] = pc[t]]
    /\ pc' = [pc EXCEPT ![t] = call]
    /\ UNCHANGED <<eLive, rLive, connectedSlots, senders, active, lastOp,
                   emitterLock, receiverLock, ub, policy>>

\* The call a slot made has returned, then the slot: shoot goes on with the
\* next connection (line 420).
MTSlotReturns(t) ==
    /\ ~ub
    /\ pc[t] = Done
    /\ frame[t] # Idle
    /\ pc' = [pc EXCEPT ![t] = [frame[t] EXCEPT !.i = @ + 1, !.f = 1]]
    /\ frame' = [frame EXCEPT ![t] = Idle]
    /\ UNCHANGED <<eLive, rLive, connectedSlots, senders, active, calls, lastOp,
                   emitterLock, receiverLock, ub, policy>>

\* SignalBaseTyped::disconnectAll (line 301) and ~SignalBaseTyped (line 291):
\* the emitter is locked.
MTEmitterAllLock(t, e, destroy) ==
    /\ Entering(t, Call(IF destroy THEN "destroyEmitter" ELSE "emitterDisconnectAll",
                        e, 0, 0))
    /\ IsEmitter(e)
    /\ CanLock(t, emitterLock, e)
    /\ emitterLock' = [emitterLock EXCEPT ![e] = t]
    /\ pc' = [pc EXCEPT ![t] =
                At(IF destroy THEN "destroyEmitter" ELSE "emitterDisconnectAll",
                   "loop", e, 0, 0, 1)]
    /\ UNCHANGED <<eLive, rLive, connectedSlots, senders, active, calls, lastOp,
                   receiverLock, ub, policy, frame>>

\* SignalBaseTyped::disconnectAll (lines 303-310) and ~SignalBaseTyped (lines
\* 293-298): the destination of one connection is told to forget the emitter,
\* which locks that receiver; at end() the list is emptied and the emitter
\* unlocked, and in the destructor destroyed. On a destination destroyed in
\* the meantime the call is undefined: it faults, or it runs on the freed
\* object.
MTEmitterAllStep(t) ==
    /\ ~ub
    /\ pc[t].op \in {"destroyEmitter", "emitterDisconnectAll"} /\ pc[t].at = "loop"
    /\ IF pc[t].i > Len(connectedSlots[pc[t].e])
       THEN /\ connectedSlots' = [connectedSlots EXCEPT ![pc[t].e] = <<>>]
            /\ emitterLock' = unlock(emitterLock, pc[t].e)
            /\ eLive' = IF pc[t].op = "destroyEmitter" THEN eLive \ {pc[t].e} ELSE eLive
            /\ pc' = [pc EXCEPT ![t] = Done]
            /\ lastOp' = Op(pc[t].op, pc[t].e, 0, 0, Len(connectedSlots[pc[t].e]))
            /\ UNCHANGED <<senders, ub>>
       ELSE \/ /\ getDestination(connectedSlots[pc[t].e][pc[t].i]) \notin rLive
               /\ ub' = TRUE
               /\ UNCHANGED <<connectedSlots, emitterLock, eLive, pc, lastOp, senders>>
            \/ /\ CanLock(t, receiverLock,
                          getDestination(connectedSlots[pc[t].e][pc[t].i]))
               /\ senders' = signalDisconnect(senders,
                                getDestination(connectedSlots[pc[t].e][pc[t].i]), pc[t].e)
               /\ pc' = [pc EXCEPT ![t].i = @ + 1]
               /\ UNCHANGED <<connectedSlots, emitterLock, eLive, lastOp, ub>>
    /\ UNCHANGED <<rLive, active, calls, receiverLock, policy, frame>>

\* HasSlots::disconnectAll (line 249), also as called by ~HasSlots (line
\* 235): the receiver is locked.
MTReceiverAllLock(t, r, destroy) ==
    /\ Entering(t, Call(IF destroy THEN "destroyReceiver" ELSE "receiverDisconnectAll",
                        0, r, 0))
    /\ IsReceiver(r)
    /\ CanLock(t, receiverLock, r)
    /\ receiverLock' = [receiverLock EXCEPT ![r] = t]
    /\ pc' = [pc EXCEPT ![t] =
                At(IF destroy THEN "destroyReceiver" ELSE "receiverDisconnectAll",
                   "loop", 0, r, 0, 1)]
    /\ UNCHANGED <<eLive, rLive, connectedSlots, senders, active, calls, lastOp,
                   emitterLock, ub, policy, frame>>

\* HasSlots::disconnectAll, lines 251-257: one sender is told to drop its
\* connections to the receiver, which locks that emitter; at end() the set is
\* cleared and the receiver unlocked, and in the destructor destroyed. On a
\* sender destroyed in the meantime the call is undefined: it faults, or it
\* runs on the freed object.
MTReceiverAllStep(t) ==
    /\ ~ub
    /\ pc[t].op \in {"destroyReceiver", "receiverDisconnectAll"} /\ pc[t].at = "loop"
    /\ IF pc[t].i > Len(senders[pc[t].r])
       THEN /\ senders' = [senders EXCEPT ![pc[t].r] = <<>>]
            /\ receiverLock' = unlock(receiverLock, pc[t].r)
            /\ rLive' = IF pc[t].op = "destroyReceiver" THEN rLive \ {pc[t].r} ELSE rLive
            /\ active' = IF pc[t].op = "destroyReceiver"
                         THEN [active EXCEPT ![pc[t].r] = TRUE]
                         ELSE active
            /\ pc' = [pc EXCEPT ![t] = Done]
            /\ lastOp' = Op(pc[t].op, 0, pc[t].r, 0, Len(senders[pc[t].r]))
            /\ UNCHANGED <<connectedSlots, ub>>
       ELSE \/ /\ senders[pc[t].r][pc[t].i] \notin eLive
               /\ ub' = TRUE
               /\ UNCHANGED <<senders, receiverLock, rLive, active, pc, lastOp,
                              connectedSlots>>
            \/ /\ CanLock(t, emitterLock, senders[pc[t].r][pc[t].i])
               /\ connectedSlots' =
                     disconnectSlot(connectedSlots, senders[pc[t].r][pc[t].i], pc[t].r)
               /\ pc' = [pc EXCEPT ![t].i = @ + 1]
               /\ UNCHANGED <<senders, receiverLock, rLive, active, lastOp, ub>>
    /\ UNCHANGED <<eLive, calls, emitterLock, policy, frame>>

\* HasSlots(const HasSlots &src), lines 223-227, constructing dst: the active
\* flag is copied, the new receiver's own mutex is locked (src's is not) and
\* the iterator set to src.senders.begin(). The position keeps the size of
\* src.senders seen by the iterator (field e), dst (r), src (f) and the
\* iterator (i).
MTCopyReceiverLock(t, src, dst) ==
    /\ Entering(t, Call("copyReceiver", 0, dst, src))
    /\ IsReceiver(src)
    /\ dst \notin rLive
    /\ TotalConnections(DuplicateSlots(connectedSlots, senders[src], src, dst))
          <= MaxConnections
    /\ CanLock(t, receiverLock, dst)
    /\ rLive' = rLive \cup {dst}
    /\ active' = [active EXCEPT ![dst] = active[src]]
    /\ senders' = [senders EXCEPT ![dst] = <<>>]
    /\ receiverLock' = [receiverLock EXCEPT ![dst] = t]
    /\ pc' = [pc EXCEPT ![t] =
                At("copyReceiver", "loop", Len(senders[src]), dst, src, 1)]
    /\ UNCHANGED <<eLive, connectedSlots, calls, lastOp, emitterLock, ub,
                   policy, frame>>

\* HasSlots(const HasSlots &src), lines 227-231: one sender of src is told to
\* duplicate its connections, which locks that emitter, and is inserted into
\* the new set; at end() the new receiver is unlocked. src.senders is read
\* without src's mutex: when another thread has written it (or destroyed
\* src) since the iterator was set, the read is a data race and undefined.
MTCopyReceiverStep(t) ==
    /\ ~ub
    /\ pc[t].op = "copyReceiver" /\ pc[t].at = "loop"
    /\ IF pc[t].f \notin rLive \/ Len(senders[pc[t].f]) # pc[t].e
       THEN /\ ub' = TRUE
            /\ UNCHANGED <<connectedSlots, senders, receiverLock, pc, lastOp>>
       ELSE IF pc[t].i > Len(senders[pc[t].f])
       THEN /\ receiverLock' = unlock(receiverLock, pc[t].r)
            /\ pc' = [pc EXCEPT ![t] = Done]
            /\ lastOp' = Op("copyReceiver", 0, pc[t].r, pc[t].f, Len(senders[pc[t].f]))
            /\ UNCHANGED <<connectedSlots, senders, ub>>
       ELSE \/ /\ senders[pc[t].f][pc[t].i] \notin eLive
               /\ ub' = TRUE
               /\ UNCHANGED <<connectedSlots, senders, receiverLock, pc, lastOp>>
            \/ /\ CanLock(t, emitterLock, senders[pc[t].f][pc[t].i])
               /\ connectedSlots' = duplicateSlot(connectedSlots,
                                       senders[pc[t].f][pc[t].i], pc[t].f, pc[t].r)
               /\ senders' = [senders EXCEPT ![pc[t].r] =
                                 SetInsert(@, senders[pc[t].f][pc[t].i])]
               /\ pc' = [pc EXCEPT ![t].i = @ + 1]
               /\ UNCHANGED <<receiverLock, lastOp, ub>>
    /\ UNCHANGED <<eLive, rLive, active, calls, emitterLock, policy, frame>>

\* SignalBaseTyped(const SignalBaseTyped &src), lines 280-283, constructing
\* dst: the new emitter's own mutex is locked (src's is not) and the iterator
\* set to src.connectedSlots.begin(). The position keeps dst (field e), the
\* size of src.connectedSlots seen by the iterator (r), src (f) and the
\* iterator (i).
MTCopyEmitterLock(t, src, dst) ==
    /\ Entering(t, Call("copyEmitter", dst, 0, src))
    /\ IsEmitter(src)
    /\ dst \in MTEmitters \ eLive
    /\ TotalConnections(connectedSlots) + Len(connectedSlots[src]) <= MaxConnections
    /\ CanLock(t, emitterLock, dst)
    /\ eLive' = eLive \cup {dst}
    /\ connectedSlots' = [connectedSlots EXCEPT ![dst] = <<>>]
    /\ emitterLock' = [emitterLock EXCEPT ![dst] = t]
    /\ pc' = [pc EXCEPT ![t] =
                At("copyEmitter", "loop", dst, Len(connectedSlots[src]), src, 1)]
    /\ UNCHANGED <<rLive, senders, active, calls, lastOp, receiverLock, ub,
                   policy, frame>>

\* SignalBaseTyped(const SignalBaseTyped &src), lines 283-287: the
\* destination of one connection of src is told of the new emitter, which
\* locks that receiver, and a clone of the connection is pushed; at end()
\* the new emitter is unlocked. src.connectedSlots is read without src's
\* mutex: when another thread has written it (or destroyed src) since the
\* iterator was set, the read is a data race and undefined.
MTCopyEmitterStep(t) ==
    /\ ~ub
    /\ pc[t].op = "copyEmitter" /\ pc[t].at = "loop"
    /\ IF pc[t].f \notin eLive \/ Len(connectedSlots[pc[t].f]) # pc[t].r
       THEN /\ ub' = TRUE
            /\ UNCHANGED <<connectedSlots, senders, emitterLock, pc, lastOp>>
       ELSE IF pc[t].i > Len(connectedSlots[pc[t].f])
       THEN /\ emitterLock' = unlock(emitterLock, pc[t].e)
            /\ pc' = [pc EXCEPT ![t] = Done]
            /\ lastOp' = Op("copyEmitter", pc[t].e, 0, pc[t].f,
                            Len(connectedSlots[pc[t].f]))
            /\ UNCHANGED <<connectedSlots, senders, ub>>
       ELSE \/ /\ getDestination(connectedSlots[pc[t].f][pc[t].i]) \notin rLive
               /\ ub' = TRUE
               /\ UNCHANGED <<connectedSlots, senders, emitterLock, pc, lastOp>>
            \/ /\ CanLock(t, receiverLock,
                          getDestination(connectedSlots[pc[t].f][pc[t].i]))
               /\ senders' = signalConnect(senders,
                                getDestination(connectedSlots[pc[t].f][pc[t].i]), pc[t].e)
               /\ connectedSlots' =
                     [connectedSlots EXCEPT ![pc[t].e] =
                         push_back(@, clone(connectedSlots[pc[t].f][pc[t].i]))]
               /\ pc' = [pc EXCEPT ![t].i = @ + 1]
               /\ UNCHANGED <<emitterLock, lastOp, ub>>
    /\ UNCHANGED <<eLive, rLive, active, calls, receiverLock, policy, frame>>

NextMT ==
    \/ \E e \in Emitters, r \in Receivers, f \in SetupSlots : MTSetup(e, r, f)
    \/ \E t \in Threads, e \in Emitters, r \in Receivers, f \in Slots :
          MTConnectLock(t, e, r, f)
    \/ \E t \in Threads : MTConnectNotify(t)
    \/ \E t \in Threads, e \in Emitters, r \in Receivers : MTDisconnectLock(t, e, r)
    \/ \E t \in Threads : MTDisconnectNotify(t)
    \/ \E t \in Threads, e \in Emitters : MTShootLock(t, e)
    \/ \E t \in Threads : MTShootStep(t)
    \/ \E t \in Threads : MTShootThrows(t)
    \/ \E t \in Threads, e \in Emitters, d \in BOOLEAN : MTEmitterAllLock(t, e, d)
    \/ \E t \in Threads : MTEmitterAllStep(t)
    \/ \E t \in Threads, r \in Receivers, d \in BOOLEAN : MTReceiverAllLock(t, r, d)
    \/ \E t \in Threads : MTReceiverAllStep(t)
    \/ \E t \in Threads, src \in Receivers, dst \in Receivers :
          MTCopyReceiverLock(t, src, dst)
    \/ \E t \in Threads : MTCopyReceiverStep(t)
    \/ \E t \in Threads, src \in Emitters, dst \in Emitters :
          MTCopyEmitterLock(t, src, dst)
    \/ \E t \in Threads : MTCopyEmitterStep(t)

\* The first emitter and receiver have been constructed, and the second
\* ones or not; nothing is connected and no thread has started.
InitMT ==
    /\ eLive \in {MTEmitters, {1}}
    /\ rLive \in {Receivers, {1}}
    /\ connectedSlots = [e \in Emitters |-> <<>>]
    /\ senders = [r \in Receivers |-> <<>>]
    /\ active = [r \in Receivers |-> TRUE]
    /\ calls = <<>>
    /\ lastOp = Op("init", 0, 0, 0, 0)
    /\ pc = [t \in Threads |-> Idle]
    /\ emitterLock = [e \in Emitters |-> 0]
    /\ receiverLock = [r \in Receivers |-> 0]
    /\ ub = FALSE
    /\ policy \in {"MultiThreadedLocal", "MultiThreadedGlobal"}
    /\ frame = [t \in Threads |-> Idle]

SpecMT == InitMT /\ [][NextMT]_vars

\* One thread whose slots may call back into the library.
NextRE ==
    \/ \E e \in Emitters, r \in Receivers, f \in SetupSlots : MTSetup(e, r, f)
    \/ \E e \in Emitters, r \in Receivers, f \in Slots : MTConnectLock(1, e, r, f)
    \/ MTConnectNotify(1)
    \/ \E e \in Emitters, r \in Receivers : MTDisconnectLock(1, e, r)
    \/ MTDisconnectNotify(1)
    \/ \E e \in Emitters : MTShootLock(1, e)
    \/ MTShootStep(1)
    \/ MTShootThrows(1)
    \/ \E call \in SlotCalls : MTSlotCalls(1, call)
    \/ MTSlotReturns(1)
    \/ \E e \in Emitters, d \in BOOLEAN : MTEmitterAllLock(1, e, d)
    \/ MTEmitterAllStep(1)
    \/ \E r \in Receivers, d \in BOOLEAN : MTReceiverAllLock(1, r, d)
    \/ MTReceiverAllStep(1)
    \/ \E src \in Receivers, dst \in Receivers : MTCopyReceiverLock(1, src, dst)
    \/ MTCopyReceiverStep(1)
    \/ \E src \in Emitters, dst \in Emitters : MTCopyEmitterLock(1, src, dst)
    \/ MTCopyEmitterStep(1)

SpecRE == InitMT /\ [][NextRE]_vars


\* ------------------------------------------------ vocabulary of the claims
\* The connections of a list whose destination is not r, in list order.
Others(list, r) == SelectSeq(list, LAMBDA c : c.object # r)

\* The connections of a list whose destination is r, in list order.
Only(list, r) == SelectSeq(list, LAMBDA c : c.object = r)

\* The connections of a list whose destination is active, in list order.
Delivered(list, act) == SelectSeq(list, LAMBDA c : act[c.object])

\* A list of connections with every destination replaced by r.
Retarget(list, r) == [i \in 1..Len(list) |-> [object |-> r, function |-> list[i].function]]

\* Number of connections (or invocations) of slot f of receiver r in a list.
CountPair(list, r, f) ==
    Cardinality({i \in 1..Len(list) : list[i].object = r /\ list[i].function = f})

\* Members of a sender set.
Members(s) == {s[i] : i \in 1..Len(s)}

\* Number of times x is stored in a sender set.
Occurrences(s, x) == Cardinality({i \in 1..Len(s) : s[i] = x})

AllActive == [r \in Receivers |-> TRUE]

\* C1: after a receiver R is destroyed, or R.disconnectAll() returns, no
\* emitter holds a connection whose destination is R, so a shoot on any
\* emitter invokes no slot of R; the connections to other receivers are kept,
\* in place.
C1_ReceiverRemovalClearsBindings ==
    [][lastOp'.op \in {"destroyReceiver", "receiverDisconnectAll"} =>
         \A e \in Emitters :
            /\ Only(connectedSlots'[e], lastOp'.r) = <<>>
            /\ Only(Delivered(connectedSlots'[e], AllActive), lastOp'.r) = <<>>
            /\ connectedSlots'[e] = Others(connectedSlots[e], lastOp'.r)]_vars

\* A receiver with at least two connections was destroyed while another
\* receiver's connection stayed.
C1_Witness ==
    /\ lastOp.op = "destroyReceiver"
    /\ lastOp.n >= 2
    /\ \E e \in eLive : connectedSlots[e] # <<>>

\* C2: after an emitter E is destroyed, or E.disconnectAll() returns, E is in
\* no receiver's sender set, and the receivers' references to other emitters
\* are kept.
C2_EmitterRemovalClearsBackRefs ==
    [][lastOp'.op \in {"destroyEmitter", "emitterDisconnectAll"} =>
         \A r \in Receivers :
            /\ lastOp'.e \notin Members(senders'[r])
            /\ senders'[r] = SelectSeq(senders[r], LAMBDA x : x # lastOp'.e)]_vars

\* An emitter with a connection was destroyed while a receiver keeps a
\* reference to another emitter.
C2_Witness ==
    /\ lastOp.op = "destroyEmitter"
    /\ lastOp.n >= 1
    /\ \E r \in rLive : senders[r] # <<>>

\* C3: two-sided consistency. For every live emitter E and live receiver R,
\* E is in R's sender set exactly when E holds a connection to R, and no
\* connection or sender entry names a destroyed object.
C3_TwoSidedConsistency ==
    /\ \A e \in eLive, r \in rLive :
          e \in Members(senders[r]) <=> Only(connectedSlots[e], r) # <<>>
    /\ \A e \in eLive : \A i \in 1..Len(connectedSlots[e]) :
          connectedSlots[e][i].object \in rLive
    /\ \A r \in rLive : Members(senders[r]) \subseteq eLive

\* After a receiver copy: a receiver connected twice to an emitter, a second
\* receiver connected to it, and an emitter nobody is connected to.
C3_Witness ==
    /\ lastOp.op = "copyReceiver"
    /\ \E e \in eLive, r \in rLive :
          /\ Len(Only(connectedSlots[e], r)) >= 1
          /\ Len(Others(connectedSlots[e], r)) >= 1
    /\ \E e \in eLive : connectedSlots[e] = <<>>

\* ------------------------------------------------ threads and mutexes ----
\* The emitter whose mutex thread t must acquire to take its next step, 0
\* when that step acquires no emitter's mutex.
WantsEmitter(t) ==
    IF /\ pc[t].at = "enter"
       /\ pc[t].op \in {"connect", "disconnect", "shoot", "emitterDisconnectAll",
                        "destroyEmitter"}
    THEN pc[t].e
    ELSE IF /\ pc[t].op \in {"destroyReceiver", "receiverDisconnectAll"}
            /\ pc[t].at = "loop"
            /\ pc[t].i <= Len(senders[pc[t].r])
    THEN senders[pc[t].r][pc[t].i]
    ELSE IF /\ pc[t].op = "copyReceiver"
            /\ pc[t].at = "loop"
            /\ pc[t].i <= Len(senders[pc[t].f])
    THEN senders[pc[t].f][pc[t].i]
    ELSE 0

\* The receiver whose mutex thread t must acquire to take its next step, 0
\* when that step acquires no receiver's mutex.
WantsReceiver(t) ==
    IF pc[t].op \in {"connect", "disconnect"} /\ pc[t].at # "enter" THEN pc[t].r
    ELSE IF /\ pc[t].op \in {"destroyReceiver", "receiverDisconnectAll"}
            /\ pc[t].at = "enter"
    THEN pc[t].r
    ELSE IF /\ pc[t].op \in {"destroyEmitter", "emitterDisconnectAll"}
            /\ pc[t].at = "loop"
            /\ pc[t].i <= Len(connectedSlots[pc[t].e])
    THEN connectedSlots[pc[t].e][pc[t].i].object
    ELSE IF /\ pc[t].op = "copyEmitter"
            /\ pc[t].at = "loop"
            /\ pc[t].i <= Len(connectedSlots[pc[t].f])
    THEN connectedSlots[pc[t].f][pc[t].i].object
    ELSE 0

\* Thread u holds a mutex.
Holds(u) ==
    \/ \E e \in Emitters : emitterLock[e] = u
    \/ \E r \in Receivers : receiverLock[r] = u

\* Thread t waits for a mutex that thread u holds.
WaitsFor(t, u) ==
    IF policy = "MultiThreadedGlobal"
    THEN (WantsEmitter(t) # 0 \/ WantsReceiver(t) # 0) /\ Holds(u)
    ELSE \/ WantsEmitter(t) # 0 /\ emitterLock[WantsEmitter(t)] = u
         \/ WantsReceiver(t) # 0 /\ receiverLock[WantsReceiver(t)] = u

\* C4: deadlock freedom under the per-instance lock policy. No two threads
\* running connect, disconnect, shoot, disconnectAll or a destructor ever
\* wait for each other's mutex, each inside an operation that cannot
\* complete.
C4_NoDeadlock ==
    ~ub => \A t \in Threads, u \in Threads :
              t # u => ~(WaitsFor(t, u) /\ WaitsFor(u, t))

\* C5: shoot order is connect order. connect puts the new connection after
\* all existing ones, shoot invokes the connections of active receivers in
\* list order, and disconnect keeps the relative order of the connections it
\* leaves.
C5_EmitOrderIsConnectOrder ==
    [][/\ lastOp'.op = "connect" =>
             connectedSlots'[lastOp'.e] =
                connectedSlots[lastOp'.e]
                   \o <<[object |-> lastOp'.r, function |-> lastOp'.x]>>
       /\ lastOp'.op = "shoot" =>
             calls' = Delivered(connectedSlots[lastOp'.e], active)
       /\ lastOp'.op = "disconnect" =>
             connectedSlots'[lastOp'.e] = Others(connectedSlots[lastOp'.e], lastOp'.r)
      ]_vars

\* A shoot invoked three connections, not all the same.
C5_Witness ==
    /\ lastOp.op = "shoot"
    /\ Len(calls) = 3
    /\ calls[1] # calls[2]
    /\ calls[2] # calls[3]

\* C6: setActive changes no connection list and no sender set; a shoot
\* invokes no slot of an inactive receiver and every connection of the
\* active ones; disconnect of an inactive receiver removes all its
\* connections and the back-reference; setActive(true) makes shoot deliver
\* to the receiver's connections again, at their places in the list.
C6_DeactivationGatesDelivery ==
    [][/\ lastOp'.op = "setActive" =>
             /\ connectedSlots' = connectedSlots
             /\ senders' = senders
             /\ \A e \in Emitters :
                   Delivered(connectedSlots'[e], active') =
                      IF lastOp'.x = 1
                      THEN SelectSeq(connectedSlots[e],
                              LAMBDA c : active[c.object] \/ c.object = lastOp'.r)
                      ELSE Others(Delivered(connectedSlots[e], active), lastOp'.r)
       /\ lastOp'.op = "shoot" =>
             /\ \A i \in 1..Len(calls') : active[calls'[i].object]
             /\ \A r \in Receivers :
                   Only(calls', r) =
                      IF active[r] THEN Only(connectedSlots[lastOp'.e], r) ELSE <<>>
       /\ (lastOp'.op = "disconnect" /\ ~active[lastOp'.r]) =>
             /\ Only(connectedSlots'[lastOp'.e], lastOp'.r) = <<>>
             /\ lastOp'.e \notin Members(senders'[lastOp'.r])
      ]_vars

\* A shoot skipped a connected, inactive receiver and invoked another one.
C6_Witness ==
    /\ lastOp.op = "shoot"
    /\ calls # <<>>
    /\ \E r \in rLive : ~active[r] /\ Only(connectedSlots[lastOp.e], r) # <<>>

\* What the copy construction of receiver lastOp'.r from receiver lastOp'.x
\* does to the registry: every emitter of the source's sender set gets, after
\* its existing connections, one connection to the copy per connection to
\* the source, with the same function and in the same order; the other
\* emitters' lists, the source's sender set and the other receivers' sender
\* sets and flags stay; the copy gets the source's sender set and flag.
ReceiverCopyClones ==
    /\ \A e \in Emitters :
          connectedSlots'[e] =
             IF e \in Members(senders[lastOp'.x])
             THEN connectedSlots[e]
                     \o Retarget(Only(connectedSlots[e], lastOp'.x), lastOp'.r)
             ELSE connectedSlots[e]
    /\ \A e \in Emitters :
          Only(connectedSlots'[e], lastOp'.x) = Only(connectedSlots[e], lastOp'.x)
    /\ senders'[lastOp'.r] = senders[lastOp'.x]
    /\ \A r \in Receivers \ {lastOp'.r} : senders'[r] = senders[r]
    /\ active'[lastOp'.r] = active[lastOp'.x]
    /\ \A r \in Receivers \ {lastOp'.r} : active'[r] = active[r]

EmitterCopyDuplicates ==
    /\ lastOp'.op = "copyEmitter" =>
          /\ connectedSlots'[lastOp'.e] = connectedSlots[lastOp'.x]
          /\ \A e \in Emitters \ {lastOp'.e} : connectedSlots'[e] = connectedSlots[e]
          /\ \A r \in Receivers :
                Members(senders'[r]) =
                   IF Only(connectedSlots[lastOp'.x], r) # <<>>
                   THEN Members(senders[r]) \cup {lastOp'.e}
                   ELSE Members(senders[r])
          /\ active' = active
    /\ lastOp'.op \in {"destroyEmitter", "emitterDisconnectAll"} =>
          /\ \A e \in Emitters \ {lastOp'.e} : connectedSlots'[e] = connectedSlots[e]
          /\ \A r \in Receivers :
                Members(senders'[r]) \ {lastOp'.e} = Members(senders[r]) \ {lastOp'.e}
    /\ lastOp'.op = "shoot" =>
          /\ connectedSlots' = connectedSlots
          /\ senders' = senders

C9_DisconnectIdempotent ==
    [][lastOp'.op = "disconnect" =>
         /\ Only(connectedSlots[lastOp'.e], lastOp'.r) = <<>> =>
               /\ connectedSlots' = connectedSlots
               /\ senders' = senders
         /\ Only(connectedSlots'[lastOp'.e], lastOp'.r) = <<>>
         /\ lastOp'.e \notin Members(senders'[lastOp'.r])
      ]_vars

\* disconnect(R) found nothing to remove on an emitter connected to another
\* receiver, while R is connected to another emitter.
C9_Witness ==
    /\ lastOp.op = "disconnect"
    /\ lastOp.n = 0
    /\ connectedSlots[lastOp.e] # <<>>
    /\ senders[lastOp.r] # <<>>

\* C10: duplicate connections are kept. connect adds one connection for the
\* (receiver, slot) pair whatever the list holds already, a shoot invokes an
\* active receiver's slot once per connection of that pair, and the
\* receiver's sender set holds the emitter once.
C10_DuplicatesKept ==
    [][/\ lastOp'.op = "connect" =>
             /\ CountPair(connectedSlots'[lastOp'.e], lastOp'.r, lastOp'.x)
                   = CountPair(connectedSlots[lastOp'.e], lastOp'.r, lastOp'.x) + 1
             /\ Len(connectedSlots'[lastOp'.e]) = Len(connectedSlots[lastOp'.e]) + 1
             /\ Occurrences(senders'[lastOp'.r], lastOp'.e) = 1
       /\ lastOp'.op = "shoot" =>
             \A r \in Receivers, f \in Slots :
                active[r] =>
                   CountPair(calls', r, f) = CountPair(connectedSlots[lastOp'.e], r, f)
      ]_vars

\* A shoot invoked the same slot of the same receiver MaxConnections times,
\* once per connection of the pair.
C10_Witness ==
    /\ lastOp.op = "shoot"
    /\ \E r \in rLive, f \in Slots :
          /\ CountPair(calls, r, f) = MaxConnections
          /\ Occurrences(senders[r], lastOp.e) = 1

\* C11: E.disconnect(R) removes every connection of E whose destination is R
\* and removes E from R's sender set; E's connections to other receivers
\* (in their order), the connections of the other emitters (those to R
\* included), R's other senders and the other receivers' sender sets are
\* left as they were.
C11_DisconnectFrame ==
    [][lastOp'.op = "disconnect" =>
         /\ connectedSlots'[lastOp'.e] = Others(connectedSlots[lastOp'.e], lastOp'.r)
         /\ \A e \in Emitters \ {lastOp'.e} : connectedSlots'[e] = connectedSlots[e]
         /\ senders'[lastOp'.r]
               = SelectSeq(senders[lastOp'.r], LAMBDA x : x # lastOp'.e)
         /\ \A r \in Receivers \ {lastOp'.r} : senders'[r] = senders[r]
         /\ eLive' = eLive /\ rLive' = rLive /\ active' = active
      ]_vars

\* disconnect(R) removed connections from an emitter that keeps a connection
\* to another receiver, while another emitter keeps its connection to R.
C11_Witness ==
    /\ lastOp.op = "disconnect"
    /\ lastOp.n >= 1
    /\ connectedSlots[lastOp.e] # <<>>
    /\ \E e \in eLive \ {lastOp.e} : Only(connectedSlots[e], lastOp.r) # <<>>
    /\ senders[lastOp.r] # <<>>

\* C12: when a slot throws during a shoot, the shoot ends with that
\* exception: the active connections up to and including the throwing one
\* were invoked once each in list order, none after it was invoked, and the
\* connection lists and sender sets are as before the shoot.
C12_FailureStopsShoot ==
    [][lastOp'.op = "shootThrows" =>
         /\ lastOp'.x \in 1..Len(connectedSlots[lastOp'.e])
         /\ active[connectedSlots[lastOp'.e][lastOp'.x].object]
         /\ calls' = Delivered(SubSeq(connectedSlots[lastOp'.e], 1, lastOp'.x), active)
         /\ connectedSlots' = connectedSlots
         /\ senders' = senders
         /\ eLive' = eLive /\ rLive' = rLive /\ active' = active
      ]_vars

\* A shoot ended by a throwing slot after an earlier connection had been
\* invoked and before a later connection to an active receiver was reached.
C12_Witness ==
    /\ lastOp.op = "shootThrows"
    /\ Len(calls) >= 2
    /\ lastOp.x < Len(connectedSlots[lastOp.e])
    /\ active[connectedSlots[lastOp.e][Len(connectedSlots[lastOp.e])].object]

\* C15: in every state, every emitter in a live receiver's sender set is live
\* and has at least one connection whose destination is that receiver.
C15_SenderHasConnection ==
    \A r \in rLive : \A e \in Members(senders[r]) :
       /\ e \in eLive
       /\ CountTo(connectedSlots[e], r) >= 1

\* An emitter of a receiver's sender set holds two connections to it.
C15_Witness ==
    \E r \in rLive : \E e \in Members(senders[r]) :
       CountTo(connectedSlots[e], r) = 2

\* C15 as stated: every emitter in a live receiver's sender set has exactly
\* one connection whose destination is that receiver.
C15_AsStated ==
    \A r \in rLive : \A e \in Members(senders[r]) :
       CountTo(connectedSlots[e], r) = 1

\* Thread t is inside shoot on emitter e.
InShoot(t, e) ==
    \/ pc[t].op = "shoot" /\ pc[t].at = "loop" /\ pc[t].e = e
    \/ frame[t].op = "shoot" /\ frame[t].e = e

\* C13: under the per-instance lock policy, while a thread is inside shoot
\* on an emitter, no step of any thread (a connect, disconnect,
\* disconnectAll, receiver destruction or receiver copy of another thread)
\* changes that emitter's connection list: such a change is made only when
\* no shoot on the emitter is in progress.
C13_ShootExcludesWriters ==
    [][policy = "MultiThreadedLocal" =>
          \A e \in Emitters :
             (\E t \in Threads : InShoot(t, e)) =>
                connectedSlots'[e] = connectedSlots[e]
      ]_vars

\* A thread is inside shoot on an emitter, past its first connection, while
\* another thread, copying or removing a receiver, waits for that emitter's
\* mutex to change its list.
C13_Witness ==
    /\ policy = "MultiThreadedLocal"
    /\ ~ub
    /\ \E t \in Threads, u \in Threads :
          /\ t # u
          /\ pc[t].op = "shoot" /\ pc[t].i > 1
          /\ pc[u].op \in {"copyReceiver", "destroyReceiver", "receiverDisconnectAll"}
          /\ WantsEmitter(u) = pc[t].e
          /\ emitterLock[pc[t].e] = t

\* C14: under the process-wide lock policy, no operation run by a thread
\* while every other thread is idle waits for the shared mutex while holding
\* it itself.
C14_NoSelfRelock ==
    policy = "MultiThreadedGlobal" =>
       \A t \in Threads :
          (\A u \in Threads \ {t} : pc[u] = Idle) => ~WaitsFor(t, t)

\* C16: no thread is iterating a source receiver's sender set (receiver
\* copy) or a source emitter's connection list (emitter copy) while another
\* thread is inside a connect or disconnect that writes that set or list.
C16_CopyReadsUnderLock ==
    \A t \in Threads, u \in Threads :
       (t # u /\ pc[u].op \in {"connect", "disconnect"} /\ pc[u].at # "enter") =>
          /\ ~(pc[t].op = "copyReceiver" /\ pc[t].at = "loop" /\ pc[t].f = pc[u].r)
          /\ ~(pc[t].op = "copyEmitter" /\ pc[t].at = "loop" /\ pc[t].f = pc[u].e)

\* No thread has an operation in progress.
Quiescent == \A t \in Threads : pc[t] \in {Idle, Done} /\ frame[t] = Idle

\* C17: under the per-instance lock policy, whenever no operation is in
\* progress, a live emitter is in a live receiver's sender set exactly when
\* it holds a connection to that receiver, no emitter holds a connection to
\* a destroyed receiver and no sender set names a destroyed emitter.
C17_QuiescentConsistent ==
    (policy = "MultiThreadedLocal" /\ Quiescent) =>
       /\ \A e \in eLive, r \in rLive :
             e \in Members(senders[r]) <=> CountTo(connectedSlots[e], r) >= 1
       /\ \A e \in eLive : \A i \in 1..Len(connectedSlots[e]) :
             connectedSlots[e][i].object \in rLive
       /\ \A r \in rLive : Members(senders[r]) \subseteq eLive

\* C18: under the per-instance lock policy, with one thread running shoot
\* and another destroying a receiver, every slot invocation is made on a
\* receiver whose destructor has not completed.
C18_NoCallAfterDestruction ==
    [][(policy = "MultiThreadedLocal" /\ Len(calls') = Len(calls) + 1) =>
          calls'[Len(calls')].object \in rLive
      ]_vars

\* A thread inside shoot has invoked a slot of a receiver whose destructor,
\* run by another thread, waits for the emitter's mutex in disconnectSlot.
C18_Witness ==
    /\ policy = "MultiThreadedLocal"
    /\ ~ub
    /\ \E t \in Threads, u \in Threads :
          /\ pc[t].op = "shoot" /\ pc[t].at = "loop"
          /\ pc[u].op = "destroyReceiver" /\ pc[u].at = "loop"
          /\ WantsEmitter(u) = pc[t].e
          /\ emitterLock[pc[t].e] = t
          /\ \E i \in 1..Len(calls) : calls[i].object = pc[u].r

\* C19: a thread with no operation in progress holds no mutex, whether its
\* operation returned or was left by a slot's exception.
C19_NoLockLeftHeld ==
    \A t \in Threads :
       (pc[t] \in {Idle, Done} /\ frame[t] = Idle) => ~Holds(t)

\* After a shoot left by a slot's exception, another thread has locked the
\* same emitter.
C19_Witness ==
    /\ lastOp.op = "shootThrows"
    /\ emitterLock[lastOp.e] # 0

\* A slot invoked by thread t's shoot has called connect, disconnect or
\* shoot on the emitter being shot, or the destructor of a receiver that
\* emitter is connected to.
Reentered(t) ==
    /\ frame[t].op = "shoot"
    /\ \/ /\ pc[t].op \in {"connect", "disconnect", "shoot"}
          /\ pc[t].at = "enter"
          /\ pc[t].e = frame[t].e
       \/ /\ pc[t].op = "destroyReceiver"
          /\ frame[t].e \in Members(senders[pc[t].r])

\* C20: under the per-instance lock policy, a thread whose slot has called
\* back into the emitter being shot (or destroys a receiver connected to it)
\* stays inside that call in every later step: the emitter's mutex remains
\* held by the suspended shoot of the same thread, which never resumes.
C20_ReentryBlocksForever ==
    [][\A t \in Threads :
          (policy = "MultiThreadedLocal" /\ Reentered(t)) =>
             /\ Reentered(t)'
             /\ frame'[t] = frame[t]
             /\ emitterLock'[frame[t].e] = t
      ]_vars

\* A slot has started the destructor of a receiver connected to the emitter
\* being shot: the destructor holds the receiver's mutex and waits in
\* disconnectSlot for the emitter's, held by the suspended shoot of the same
\* thread.
C20_Witness ==
    /\ policy = "MultiThreadedLocal"
    /\ \E t \in Threads :
          /\ Reentered(t)
          /\ pc[t].op = "destroyReceiver" /\ pc[t].at = "loop"
          /\ WantsEmitter(t) = frame[t].e
          /\ emitterLock[frame[t].e] = t

====
